---- MODULE Spec2Model ----
(***************************************************************************)
(* Tag mutation engine of the RFID warehouse service (src/main.py).        *)
(*                                                                         *)
(* The store is a MySQL/InnoDB database reached through pooled             *)
(* connections.  Every mutation handler runs its statements in one         *)
(* transaction on a worker thread (asyncio.to_thread) and the caller waits *)
(* for it with asyncio.wait_for.  A transaction's writes are held in       *)
(* pend[w] until COMMIT makes them visible at once; ROLLBACK discards      *)
(* them.  SELECT ... FOR UPDATE and INSERT take the row lock of the tid    *)
(* they touch, which is held until the transaction ends.  The only         *)
(* database-level key the source relies on is the key on tid               *)
(* (IntegrityError handler of register, main.py:391-394).                  *)
(*                                                                         *)
(* Beside the mutation handlers the module holds the incremental read      *)
(* GET /tags/updated-since with a paging client, the suggestion cache of   *)
(* GET /bom/items, and the Audit / Verify operation with its Audit Ledger, *)
(* which is not part of src/main.py and is taken from the service's        *)
(* specification.  Each part has its own specification over the one Init.  *)
(***************************************************************************)
EXTENDS Integers, Sequences, FiniteSets, TLC

\* ------------------------------------------------------------------ bounds
MaxReq  == 3      \* requests accepted by the workers in one behaviour
MaxTime == 1      \* last value of the database clock (whole seconds)
MaxSeqReq == 2    \* requests of one behaviour of the sequential specification
MaxCacheTicks == 3  \* advances of time.time() in one behaviour of the cache
MaxCalls == 3       \* VerifyAndSave calls answered in one behaviour
MaxVerifyTime == 6  \* last value of the database clock in the verify specification

\* ---------------------------------------------------------- configuration
_SUGG_TTL_SEC == 300   \* BOM_SUGGEST_TTL
READ_TIMEOUT  == 3     \* READ_TIMEOUT of bom_items

\* ------------------------------------------------------------ value space
NULL  == "<NULL>"          \* Python None / SQL NULL for text values
NoQty == -1                \* Python None / SQL NULL for integers and times

Workers == {"w1", "w2"}
TIDS    == {"T1", "T2"}    \* tids as stored (upper case)

REQUIRED_RACK_AREAS == {"W/H", "KITING"}

\* str.upper() on the strings the model uses
UpperMap ==
  [s \in {"t1", "l1", "r1", " r2 ", "r2", "w/h", " w/h ", "prod", "batt-a",
          "b1", "abc"} |->
     CASE s = "t1"     -> "T1"
       [] s = "l1"     -> "L1"
       [] s = "r1"     -> "R1"
       [] s = " r2 "   -> " R2 "
       [] s = "r2"     -> "R2"
       [] s = "w/h"    -> "W/H"
       [] s = " w/h "  -> " W/H "
       [] s = "prod"   -> "PROD"
       [] s = "batt-a" -> "BATT-A"
       [] s = "b1"     -> "B1"
       [] s = "abc"    -> "ABC"]

Upper(s) == IF s \in DOMAIN UpperMap THEN UpperMap[s] ELSE s

\* str.strip() on the strings the model uses
Strip(s) ==
  CASE s = " "     -> ""
    [] s = " r2 "  -> "r2"
    [] s = " R2 "  -> "R2"
    [] s = " w/h " -> "w/h"
    [] s = " W/H " -> "W/H"
    [] OTHER       -> s

\* _upper_or_none: upper case of a non-blank string, else None
_upper_or_none(s) == IF s # NULL /\ Strip(s) # "" THEN Upper(s) ELSE NULL

\* rack_up of update_by_tid: trimmed and upper-cased, None when blank
RackUp(rack_raw) ==
  IF rack_raw # NULL /\ Strip(rack_raw) # "" THEN Upper(Strip(rack_raw)) ELSE NULL

\* (x or "") of Python for a text value
OrEmpty(s) == IF s = NULL THEN "" ELSE s

\* COALESCE(a, b) of SQL
Coalesce(a, b) == IF a = NULL THEN b ELSE a
CoalesceInt(a, b) == IF a = NoQty THEN b ELSE a

\* datetime.strftime("%Y-%m-%d %H:%M:%S"): the text form of a timestamp
Format(ts) == [fmt |-> "%Y-%m-%d %H:%M:%S", sec |-> ts]
\* the same instant written by a client in ISO 8601 ("...T...")
IsoFormat(ts) == [fmt |-> "%Y-%m-%dT%H:%M:%S", sec |-> ts]
NoPrev == [fmt |-> "None", sec |-> 0]

\* ------------------------------------------------------------------- rows
NoRow == [exists |-> FALSE]

\* ver counts the committed writes of the row (history value, not a column)
MkRow(label, item, qty, rack, area, upd, aud, ver) ==
  [exists |-> TRUE, label_number |-> label, item |-> item, qty |-> qty,
   rack_location |-> rack, area |-> area, updated_at |-> upd,
   audit_at |-> aud, ver |-> ver]

\* the remaining columns of rfid_tags_current (epc is always NULL)
MkRest(tid, muf, fg, batch, ctn, remark, by) ==
  [tid |-> tid, muf_no |-> muf, fg_no |-> fg, batch_no |-> batch,
   ctn_qty |-> ctn, remark |-> remark, updated_by |-> by]

MkLog(tid, label, item, action, qo, qn, ro, rn, ao, an) ==
  [tid |-> tid, label_number |-> label, item |-> item, action |-> action,
   qty_old |-> qo, qty_new |-> qn,
   from_rack_location |-> ro, to_rack_location |-> rn,
   area_old |-> ao, area_new |-> an]

NoPend == [row |-> NoRow, logs |-> <<>>]

\* HTTP outcomes of a handler
Ok(op)        == [op |-> op, code |-> 200, detail |-> "ok"]
Running       == [op |-> "none", code |-> 0, detail |-> ""]
Err(op, c, d) == [op |-> op, code |-> c, detail |-> d]

NoReq ==
  [kind |-> "none", tid |-> NULL, label |-> NULL, item |-> NULL, qty |-> NoQty,
   rack |-> NULL, area |-> NULL, action |-> NULL, prev |-> NoPrev, prevVer |-> 0,
   muf |-> NULL, fg |-> NULL, batch |-> NULL, ctn |-> NoQty, remark |-> NULL,
   actor |-> NULL]

VARIABLES
  tags,      \* rfid_tags_current, committed: stored tid -> row or NoRow
  log,       \* rfid_tags_log, committed: sequence of entries
  now,       \* NOW() of the database, in whole seconds
  lock,      \* row lock of a tid: the worker holding it, or "none"
  pc,        \* position of each worker in its handler
  req,       \* request each worker is serving
  old,       \* row each worker read under lock
  pend,      \* uncommitted writes of each worker's transaction
  result,    \* outcome of each worker's handler
  timedout,  \* asyncio.wait_for of the caller fired while the worker runs
  lastRead,  \* what a client last read with GET /tags/by-tid
  nreq,      \* requests accepted so far
  cursor,    \* (ts, last_tid) a sync client passes to GET /tags/updated-since
  seen,      \* per tid, the newest row version a page has returned (0: none)
  dupl,      \* a page has returned a row version returned before
  sync,      \* a full read by a second client: its cursor and the pages it got
  cache,     \* _SUGG_CACHE: key -> entry
  ctime,     \* time.time() of the process, in seconds
  look,      \* the /bom/items lookup each client is in
  ledger,    \* Audit Ledger: sequence of entries
  calls      \* the VerifyAndSave calls answered so far

core == <<tags, log, now, lock, pc, req, old, pend, result, timedout, lastRead, nreq>>
pageVars  == <<cursor, seen, dupl, sync>>
cacheVars == <<cache, ctime, look>>
auditVars == <<ledger, calls>>
ext == <<pageVars, cacheVars, auditVars>>

vars == <<core, ext>>

\* the sync client starts from the defaults ts='1970-01-01 00:00:00', last_tid=''
NoCursor == [ts |-> Format(-1), tid |-> ""]

\* a client that has not started its full read
NoSync == [on |-> FALSE, cursor |-> NoCursor, pages |-> <<>>]

Clients == {"c1", "c2"}
Keys == {<<"ABC", 5>>, <<"ABC", 20>>}
NoEnt  == [exp |-> -1, rows |-> "none", ins |-> -1]
NoLook == [pc |-> "idle", key |-> <<"", 0>>, now |-> 0, seq |-> 0]

NoRead == [tid |-> NULL, token |-> NoPrev, ver |-> 0]

Init ==
  /\ tags = [t \in TIDS |-> NoRow]
  /\ log = <<>>
  /\ now = 0
  /\ lock = [t \in TIDS |-> "none"]
  /\ pc = [w \in Workers |-> "idle"]
  /\ req = [w \in Workers |-> NoReq]
  /\ old = [w \in Workers |-> NoRow]
  /\ pend = [w \in Workers |-> NoPend]
  /\ result = [w \in Workers |-> Running]
  /\ timedout = [w \in Workers |-> FALSE]
  /\ lastRead = NoRead
  /\ nreq = 0
  /\ cursor = NoCursor
  /\ seen = [t \in TIDS |-> 0]
  /\ dupl = FALSE
  /\ sync = NoSync
  /\ cache = [k \in Keys |-> NoEnt]
  /\ ctime = 0
  /\ look = [c \in Clients |-> NoLook]
  /\ ledger = <<>>
  /\ calls = <<>>

\* ---------------------------------------------------------------- helpers
\* the tids that have a committed row
Rows == {t \in TIDS : tags[t] # NoRow}

\* UPPER(%s) of the tid a request names: the stored tid it addresses
Tid(w) == Upper(req[w].tid)

\* a worker thread takes a request (asyncio.to_thread)
Accept(w, r, next) ==
  /\ pc[w] \in {"idle", "done"}
  /\ nreq < MaxReq
  /\ nreq' = nreq + 1
  /\ req' = [req EXCEPT ![w] = r]
  /\ pc' = [pc EXCEPT ![w] = next]
  /\ old' = [old EXCEPT ![w] = NoRow]
  /\ pend' = [pend EXCEPT ![w] = NoPend]
  /\ timedout' = [timedout EXCEPT ![w] = FALSE]

\* variant: an error path that returns without conn.rollback()
RollbackMissing(w) ==
  /\ pend' = [pend EXCEPT ![w] = NoPend]
  /\ UNCHANGED <<lock, tags, log>>

\* conn.rollback(): the transaction's writes are discarded, its lock released
Rollback(w) ==
  /\ pend' = [pend EXCEPT ![w] = NoPend]
  /\ lock' = [t \in TIDS |-> IF lock[t] = w THEN "none" ELSE lock[t]]
  /\ UNCHANGED <<tags, log>>

\* the handler returns: the response is delivered, the worker's locals are gone
Return(w, res) ==
  /\ pc' = [pc EXCEPT ![w] = "done"]
  /\ result' = [result EXCEPT ![w] = res]
  /\ req' = [req EXCEPT ![w] = NoReq]
  /\ old' = [old EXCEPT ![w] = NoRow]
  /\ timedout' = [timedout EXCEPT ![w] = FALSE]

\* raise HTTPException(code, detail) inside the transaction
Reject(w, code, detail) ==
  /\ Rollback(w)
  /\ Return(w, Err(req[w].kind, code, detail))

\* rows and log entries a COMMIT makes visible
CommittedTags(w) ==
  IF pend[w].row = NoRow THEN tags ELSE [tags EXCEPT ![Tid(w)] = pend[w].row]

\* variant: the log entry is not part of what the commit makes visible
CommittedLogLost(w) == log

CommittedLog(w) == log \o pend[w].logs

\* conn.commit(): all writes of the transaction become visible at once
Commit(w) ==
  /\ tags' = CommittedTags(w)
  /\ log' = CommittedLog(w)
  /\ pend' = [pend EXCEPT ![w] = NoPend]
  /\ lock' = [t \in TIDS |-> IF lock[t] = w THEN "none" ELSE lock[t]]

\* variant: a plain SELECT, which waits for no lock
RowLockIgnored(w) == TRUE

\* the row lock of a tid is free for this worker's transaction
RowLockFree(w) == lock[Tid(w)] = "none"

\* SELECT ... WHERE UPPER(tid)=UPPER(%s) FOR UPDATE, then "if not old: 404"
LockingRead(w, next) ==
  /\ RowLockFree(w)
  /\ IF tags[Tid(w)] = NoRow
       THEN Reject(w, 404, "not found")
       ELSE /\ lock' = [lock EXCEPT ![Tid(w)] = w]
            /\ old' = [old EXCEPT ![w] = tags[Tid(w)]]
            /\ pc' = [pc EXCEPT ![w] = next]
            /\ UNCHANGED <<tags, log, pend, result, req, timedout>>
  /\ UNCHANGED <<now, lastRead, ext, nreq>>

\* the row a transaction sees for its tid: its own write, else the committed row
CurRow(w) == IF pend[w].row # NoRow THEN pend[w].row ELSE tags[Tid(w)]

\* execute an UPDATE of the tid's row and the INSERT into rfid_tags_log
WriteRowAndLog(w, row, entry) ==
  /\ pend' = [pend EXCEPT ![w] = [row |-> row, logs |-> Append(pend[w].logs, entry)]]
  /\ pc' = [pc EXCEPT ![w] = "commit"]
  /\ UNCHANGED <<tags, log, now, lock, req, old, result, timedout, lastRead, ext, nreq>>

\* conn.commit(); return new
CommitAndReturn(w) ==
  /\ Commit(w)
  /\ Return(w, Ok(req[w].kind))
  /\ UNCHANGED <<now, lastRead, ext, nreq>>

\* ------------------------------------------------------------ update_by_tid
\* final_area of update_by_tid
FinalArea(r, o) ==
  IF r.area = "" THEN NULL
  ELSE IF _upper_or_none(r.area) # NULL THEN _upper_or_none(r.area) ELSE o.area

\* variant: "if not rack_raw", which takes the empty string for an omitted field
FinalRackFalsy(r, o) ==
  IF r.rack = NULL \/ r.rack = "" THEN o.rack_location ELSE RackUp(r.rack)

\* final_rack of update_by_tid
FinalRack(r, o) ==
  IF r.rack = NULL THEN o.rack_location
  ELSE IF r.rack = "" THEN NULL ELSE RackUp(r.rack)

\* variant: the comparison without the "is not None" guard
PrevConflictNoGuard(r, o) == Format(o.updated_at) # r.prev

\* the optimistic check: prev_updated_at given and different from the row's
PrevConflict(r, o) ==
  r.prev # NoPrev /\ Format(o.updated_at) # r.prev

\* "rack_location required for area ..."
RackMissing(area, rack) ==
  area \in REQUIRED_RACK_AREAS /\ (rack = NULL \/ Strip(rack) = "")

\* SELECT 1 ... WHERE UPPER(label_number)=UPPER(label) AND UPPER(tid)<>UPPER(tid)
LabelHeldByOther(label, tid) ==
  \E t \in TIDS : /\ t # tid
                  /\ tags[t] # NoRow
                  /\ tags[t].label_number # NULL
                  /\ Upper(tags[t].label_number) = Upper(label)

\* the label of the request is new for the row, so its uniqueness is checked
LabelNeedsCheck(r, o) ==
  /\ _upper_or_none(r.label) # NULL
  /\ _upper_or_none(r.label) # Upper(OrEmpty(o.label_number))

\* variant: rack_location and area written with COALESCE like the other columns
UpdatedRowCoalesce(r, cur, t) ==
  MkRow(Coalesce(_upper_or_none(r.label), cur.label_number),
        Coalesce(_upper_or_none(r.item), cur.item),
        CoalesceInt(r.qty, cur.qty),
        Coalesce(RackUp(r.rack), cur.rack_location),
        Coalesce(_upper_or_none(r.area), cur.area),
        t, cur.audit_at, cur.ver + 1)
  @@ MkRest(cur.tid,
            Coalesce(_upper_or_none(r.muf), cur.muf_no),
            Coalesce(_upper_or_none(r.fg), cur.fg_no),
            Coalesce(_upper_or_none(r.batch), cur.batch_no),
            CoalesceInt(r.ctn, cur.ctn_qty),
            Coalesce(r.remark, cur.remark), r.actor)

\* the row after the UPDATE statement of update_by_tid, executed at time t
UpdatedRow(r, cur, t) ==
  MkRow(Coalesce(_upper_or_none(r.label), cur.label_number),
        Coalesce(_upper_or_none(r.item), cur.item),
        CoalesceInt(r.qty, cur.qty),
        IF r.rack = NULL THEN cur.rack_location
        ELSE IF r.rack = "" THEN NULL ELSE RackUp(r.rack),
        IF r.area = NULL THEN cur.area
        ELSE IF r.area = "" THEN NULL ELSE _upper_or_none(r.area),
        t, cur.audit_at, cur.ver + 1)
  @@ MkRest(cur.tid,
            Coalesce(_upper_or_none(r.muf), cur.muf_no),
            Coalesce(_upper_or_none(r.fg), cur.fg_no),
            Coalesce(_upper_or_none(r.batch), cur.batch_no),
            CoalesceInt(r.ctn, cur.ctn_qty),
            Coalesce(r.remark, cur.remark), r.actor)

\* final_action of update_by_tid
FinalAction(r, o) ==
  LET qty_changed  == r.qty # NoQty /\ r.qty # o.qty
      area_changed == OrEmpty(FinalArea(r, o)) # OrEmpty(o.area)
      rack_changed == /\ FinalArea(r, o) \in REQUIRED_RACK_AREAS
                      /\ OrEmpty(FinalRack(r, o)) # OrEmpty(o.rack_location)
  IN IF ~qty_changed /\ (area_changed \/ rack_changed) /\ r.action # "ADJUST_QTY"
       THEN "MOVE" ELSE r.action

\* the log entry of update_by_tid
UpdateLog(r, tid, o, new) ==
  MkLog(tid, new.label_number, new.item, FinalAction(r, o),
        o.qty, new.qty, o.rack_location, new.rack_location, o.area, new.area)

update_by_tid_begin(w, r) ==
  /\ r.kind = "update"
  /\ Accept(w, r, "lock")
  /\ result' = [result EXCEPT ![w] = Running]
  /\ UNCHANGED <<tags, log, now, lock, lastRead, ext>>

update_by_tid_lock(w) ==
  /\ pc[w] = "lock" /\ req[w].kind = "update"
  /\ LockingRead(w, "check")

\* variant: the UPDATE runs before the checks and outside a transaction
update_by_tid_check_after_write(w) ==
  /\ pc[w] = "check" /\ req[w].kind = "update"
  /\ IF \/ PrevConflict(req[w], old[w])
        \/ RackMissing(FinalArea(req[w], old[w]), FinalRack(req[w], old[w]))
        \/ LabelNeedsCheck(req[w], old[w]) /\ LabelHeldByOther(req[w].label, Tid(w))
       THEN /\ tags' = [tags EXCEPT ![Tid(w)] = UpdatedRow(req[w], CurRow(w), now)]
            /\ log' = log
            /\ pend' = [pend EXCEPT ![w] = NoPend]
            /\ lock' = [t \in TIDS |-> IF lock[t] = w THEN "none" ELSE lock[t]]
            /\ Return(w, Err("update", 409, "conflict"))
       ELSE /\ pc' = [pc EXCEPT ![w] = "write"]
            /\ UNCHANGED <<tags, log, lock, pend, result, req, old, timedout>>
  /\ UNCHANGED <<now, lastRead, ext, nreq>>

update_by_tid_check(w) ==
  /\ pc[w] = "check" /\ req[w].kind = "update"
  /\ IF PrevConflict(req[w], old[w])
       THEN Reject(w, 409, "conflict: the tag was updated by someone else")
     ELSE IF RackMissing(FinalArea(req[w], old[w]), FinalRack(req[w], old[w]))
       THEN Reject(w, 400, "rack_location required for area")
     ELSE IF LabelNeedsCheck(req[w], old[w]) /\ LabelHeldByOther(req[w].label, Tid(w))
       THEN Reject(w, 409, "Duplicate label")
     ELSE /\ pc' = [pc EXCEPT ![w] = "write"]
          /\ UNCHANGED <<tags, log, lock, pend, result, req, old, timedout>>
  /\ UNCHANGED <<now, lastRead, ext, nreq>>

update_by_tid_write(w) ==
  /\ pc[w] = "write" /\ req[w].kind = "update"
  /\ LET new == UpdatedRow(req[w], CurRow(w), now)
     IN WriteRowAndLog(w, new, UpdateLog(req[w], Tid(w), old[w], new))

update_by_tid_commit(w) ==
  /\ pc[w] = "commit" /\ req[w].kind = "update"
  /\ CommitAndReturn(w)

\* ----------------------------------------------------------------- register
\* the row and the log entry register inserts, at time t
RegisteredRow(r, t) ==
  MkRow(Upper(r.label), Upper(r.item), r.qty,
        _upper_or_none(r.rack), _upper_or_none(r.area), t, NoQty, 1)
  @@ MkRest(Upper(r.tid), _upper_or_none(r.muf), _upper_or_none(r.fg),
            _upper_or_none(r.batch), r.ctn, r.remark, r.actor)

RegisterLog(r) ==
  MkLog(Upper(r.tid), Upper(r.label), Upper(r.item), "REGISTER",
        NoQty, r.qty, NULL, _upper_or_none(r.rack), NULL, _upper_or_none(r.area))

\* SELECT 1 ... WHERE UPPER(tid)=UPPER(tid_up) OR UPPER(label_number)=UPPER(label_up)
TidOrLabelExists(tid, label) ==
  \E t \in TIDS : /\ tags[t] # NoRow
                  /\ \/ t = Upper(tid)
                     \/ /\ tags[t].label_number # NULL
                        /\ Upper(tags[t].label_number) = Upper(label)

\* the required-location check runs before the worker is started
register_begin(w, r) ==
  /\ r.kind = "register"
  /\ IF RackMissing(_upper_or_none(r.area), _upper_or_none(r.rack))
       THEN /\ Accept(w, NoReq, "done")
            /\ result' = [result EXCEPT ![w] =
                 Err("register", 400, "rack_location required for area")]
       ELSE /\ Accept(w, r, "r_check")
            /\ result' = [result EXCEPT ![w] = Running]
  /\ UNCHANGED <<tags, log, now, lock, lastRead, ext>>

register_check(w) ==
  /\ pc[w] = "r_check"
  /\ IF TidOrLabelExists(Upper(req[w].tid), Upper(req[w].label))
       THEN Reject(w, 409, "Duplicate tid or label")
       ELSE /\ pc' = [pc EXCEPT ![w] = "r_insert"]
            /\ UNCHANGED <<tags, log, lock, pend, result, req, old, timedout>>
  /\ UNCHANGED <<now, lastRead, ext, nreq>>

\* variant: the table has no key on tid, so the INSERT never fails
register_insert_no_key(w) ==
  /\ pc[w] = "r_insert"
  /\ RowLockFree(w)
  /\ lock' = [lock EXCEPT ![Tid(w)] = w]
  /\ pend' = [pend EXCEPT ![w] =
       [row |-> RegisteredRow(req[w], now),
        logs |-> Append(pend[w].logs, RegisterLog(req[w]))]]
  /\ pc' = [pc EXCEPT ![w] = "r_commit"]
  /\ UNCHANGED <<tags, log, result, req, old, timedout>>
  /\ UNCHANGED <<now, lastRead, ext, nreq>>

\* INSERT INTO rfid_tags_current and rfid_tags_log; a duplicate tid raises
\* IntegrityError, which register turns into 409
register_insert(w) ==
  /\ pc[w] = "r_insert"
  /\ RowLockFree(w)
  /\ IF tags[Tid(w)] # NoRow
       THEN Reject(w, 409, "Duplicate tid")
       ELSE /\ lock' = [lock EXCEPT ![Tid(w)] = w]
            /\ pend' = [pend EXCEPT ![w] =
                 [row |-> RegisteredRow(req[w], now),
                  logs |-> Append(pend[w].logs, RegisterLog(req[w]))]]
            /\ pc' = [pc EXCEPT ![w] = "r_commit"]
            /\ UNCHANGED <<tags, log, result, req, old, timedout>>
  /\ UNCHANGED <<now, lastRead, ext, nreq>>

register_commit(w) ==
  /\ pc[w] = "r_commit"
  /\ Commit(w)
  /\ pc' = [pc EXCEPT ![w] = "r_reread"]
  /\ UNCHANGED <<now, req, old, result, timedout, lastRead, ext, nreq>>

\* the row the SELECT after the commit reads: the committed row of the tid
RereadRow(w) == tags[Tid(w)]

\* the SELECT after the commit, and "if not row: 404" of the caller
register_reread(w) ==
  /\ pc[w] = "r_reread"
  /\ Return(w, IF RereadRow(w) = NoRow THEN Err("register", 404, "not found")
                ELSE Ok("register"))
  /\ UNCHANGED <<tags, log, now, lock, pend, lastRead, ext, nreq>>

\* -------------------------------------------------------- mark_audit_by_tid
\* variant: the UPDATE also writes the request's remark
AuditedRowRemark(r, cur, t) ==
  [cur EXCEPT !.audit_at = t, !.updated_at = t, !.updated_by = r.actor,
              !.remark = r.remark, !.ver = cur.ver + 1]

AuditedRow(r, cur, t) ==
  [cur EXCEPT !.audit_at = t, !.updated_at = t, !.updated_by = r.actor,
              !.ver = cur.ver + 1]

AuditLog(tid, o, new) ==
  MkLog(tid, new.label_number, o.item, "AUDIT",
        o.qty, o.qty, o.rack_location, o.rack_location, o.area, o.area)

mark_audit_by_tid_begin(w, r) ==
  /\ r.kind = "audit"
  /\ Accept(w, r, "lock")
  /\ result' = [result EXCEPT ![w] = Running]
  /\ UNCHANGED <<tags, log, now, lock, lastRead, ext>>

mark_audit_by_tid_lock(w) ==
  /\ pc[w] = "lock" /\ req[w].kind = "audit"
  /\ LockingRead(w, "write")

mark_audit_by_tid_write(w) ==
  /\ pc[w] = "write" /\ req[w].kind = "audit"
  /\ LET new == AuditedRow(req[w], CurRow(w), now)
     IN WriteRowAndLog(w, new, AuditLog(Tid(w), old[w], new))

mark_audit_by_tid_commit(w) ==
  /\ pc[w] = "commit" /\ req[w].kind = "audit"
  /\ CommitAndReturn(w)

\* -------------------------------------------------------- deregister_by_tid
\* variant: batch_no is missing from the SET list
DeregisteredRowKeepsBatch(r, cur, t) ==
  MkRow(cur.label_number, "-", 0, NULL, NULL, t, NoQty, cur.ver + 1)
  @@ MkRest(cur.tid, NULL, NULL, cur.batch_no, NoQty, r.remark, r.actor)

DeregisteredRow(r, cur, t) ==
  MkRow(cur.label_number, "-", 0, NULL, NULL, t, NoQty, cur.ver + 1)
  @@ MkRest(cur.tid, NULL, NULL, NULL, NoQty, r.remark, r.actor)

\* variant: qty_old taken from the row after the reset
DeregisterLogNewQty(tid, o, new) ==
  MkLog(tid, new.label_number, new.item, "WRITE_INFO",
        new.qty, new.qty, o.rack_location, new.rack_location, o.area, new.area)

DeregisterLog(tid, o, new) ==
  MkLog(tid, new.label_number, new.item, "WRITE_INFO",
        o.qty, new.qty, o.rack_location, new.rack_location, o.area, new.area)

deregister_by_tid_begin(w, r) ==
  /\ r.kind = "deregister"
  /\ Accept(w, r, "lock")
  /\ result' = [result EXCEPT ![w] = Running]
  /\ UNCHANGED <<tags, log, now, lock, lastRead, ext>>

deregister_by_tid_lock(w) ==
  /\ pc[w] = "lock" /\ req[w].kind = "deregister"
  /\ LockingRead(w, "write")

deregister_by_tid_write(w) ==
  /\ pc[w] = "write" /\ req[w].kind = "deregister"
  /\ LET new == DeregisteredRow(req[w], CurRow(w), now)
     IN WriteRowAndLog(w, new, DeregisterLog(Tid(w), old[w], new))

deregister_by_tid_commit(w) ==
  /\ pc[w] = "commit" /\ req[w].kind = "deregister"
  /\ CommitAndReturn(w)

\* ------------------------------------------------------------- reuse_by_tid
ReusedRow(r, cur, t) ==
  MkRow(_upper_or_none(r.label), "-", 0, NULL, NULL, t, NoQty, cur.ver + 1)
  @@ MkRest(cur.tid, NULL, NULL, NULL, NoQty, r.remark, r.actor)

\* variant: to_rack_location taken from the row read under the lock
ReuseLogKeepsRack(tid, o, new) ==
  MkLog(tid, new.label_number, new.item, "REUSE",
        o.qty, new.qty, o.rack_location, o.rack_location, o.area, new.area)

ReuseLog(tid, o, new) ==
  MkLog(tid, new.label_number, new.item, "REUSE",
        o.qty, new.qty, o.rack_location, NULL, o.area, new.area)

\* "new_label required" is checked before the worker is started
reuse_by_tid_begin(w, r) ==
  /\ r.kind = "reuse"
  /\ IF _upper_or_none(r.label) = NULL
       THEN /\ Accept(w, NoReq, "done")
            /\ result' = [result EXCEPT ![w] = Err("reuse", 400, "new_label required")]
       ELSE /\ Accept(w, r, "lock")
            /\ result' = [result EXCEPT ![w] = Running]
  /\ UNCHANGED <<tags, log, now, lock, lastRead, ext>>

reuse_by_tid_lock(w) ==
  /\ pc[w] = "lock" /\ req[w].kind = "reuse"
  /\ LockingRead(w, "write")

reuse_by_tid_write(w) ==
  /\ pc[w] = "write" /\ req[w].kind = "reuse"
  /\ LET new == ReusedRow(req[w], CurRow(w), now)
     IN WriteRowAndLog(w, new, ReuseLog(Tid(w), old[w], new))

reuse_by_tid_commit(w) ==
  /\ pc[w] = "commit" /\ req[w].kind = "reuse"
  /\ CommitAndReturn(w)

\* ------------------------------------------------------------- environment
\* GET /tags/by-tid: a client reads a row; updated_at comes back formatted
by_tid(tid) ==
  /\ tags[Upper(tid)] # NoRow
  /\ lastRead' = [tid |-> Upper(tid),
                  token |-> Format(tags[Upper(tid)].updated_at),
                  ver |-> tags[Upper(tid)].ver]
  /\ lastRead' # lastRead
  /\ UNCHANGED <<tags, log, now, lock, pc, req, old, pend, result, timedout, nreq, ext>>

\* the statement the worker is about to execute raises an unexpected database
\* error (lost connection, lock wait timeout, ...): "except: conn.rollback();
\* raise" of the handler, answered 500.  At "check" the only statement is the
\* label query of update_by_tid, which runs after the checks before it passed;
\* at "r_reread" the transaction of register is already committed.
db_error(w) ==
  /\ pc[w] \in {"lock", "check", "write", "commit",
                "r_check", "r_insert", "r_commit", "r_reread"}
  /\ pc[w] = "check" =>
       /\ ~PrevConflict(req[w], old[w])
       /\ ~RackMissing(FinalArea(req[w], old[w]), FinalRack(req[w], old[w]))
       /\ LabelNeedsCheck(req[w], old[w])
  /\ Rollback(w)
  /\ Return(w, Err(req[w].kind, 500, "Internal Server Error"))
  /\ UNCHANGED <<now, lastRead, ext, nreq>>

\* asyncio.wait_for gives up; the worker thread runs on
wait_for_timeout(w) ==
  /\ pc[w] \notin {"idle", "done"}
  /\ ~timedout[w]
  /\ timedout' = [timedout EXCEPT ![w] = TRUE]
  /\ UNCHANGED <<tags, log, now, lock, pc, req, old, pend, result, lastRead, ext, nreq>>

\* ------------------------------------------------------ tags_updated_since
\* position of a tid in the ordering of the tid column ('' sorts first)
TidOrd(t) == CASE t = "" -> 0 [] t = "T1" -> 1 [] t = "T2" -> 2

\* variant: the cursor compares the timestamp only
AfterCursorStrict(t, c) == tags[t].updated_at > c.ts.sec

\* (updated_at > ts) OR (updated_at = ts AND tid > last_tid); ts is parsed
\* from its text form
AfterCursor(t, c) ==
  \/ tags[t].updated_at > c.ts.sec
  \/ tags[t].updated_at = c.ts.sec /\ TidOrd(t) > TidOrd(c.tid)

\* ORDER BY updated_at ASC, tid ASC
RECURSIVE OrderRows(_)
OrderRows(S) ==
  IF S = {} THEN <<>>
  ELSE LET m == CHOOSE t \in S : \A u \in S :
                  \/ tags[t].updated_at < tags[u].updated_at
                  \/ /\ tags[t].updated_at = tags[u].updated_at
                     /\ TidOrd(t) <= TidOrd(u)
       IN <<m>> \o OrderRows(S \ {m})

\* the tids of the page: the first `limit` committed rows after the cursor
Page(c, limit) ==
  LET all == OrderRows({t \in Rows : AfterCursor(t, c)})
  IN SubSeq(all, 1, IF Len(all) < limit THEN Len(all) ELSE limit)

\* GET /tags/updated-since, and the client taking the last row's
\* (updated_at, tid) as its next cursor
tags_updated_since(limit) ==
  LET page == Page(cursor, limit)
      got  == {page[i] : i \in 1..Len(page)}
  IN /\ page # <<>>
     /\ cursor' = [ts |-> Format(tags[page[Len(page)]].updated_at),
                   tid |-> tags[page[Len(page)]].tid]
     /\ seen' = [t \in TIDS |-> IF t \in got THEN tags[t].ver ELSE seen[t]]
     /\ dupl' = (dupl \/ \E t \in got : tags[t].ver <= seen[t])
     /\ UNCHANGED <<sync, core, cacheVars, auditVars>>

\* a client starts a full read from the defaults of ts and last_tid
sync_start ==
  /\ ~sync.on
  /\ sync' = [sync EXCEPT !.on = TRUE]
  /\ UNCHANGED <<cursor, seen, dupl, core, cacheVars, auditVars>>

\* the client's full read is over: its last page was empty
SyncDone == sync.pages # <<>> /\ sync.pages[Len(sync.pages)] = <<>>

\* GET /tags/updated-since of the full read: the client keeps the page and
\* passes the last row's (updated_at, tid) with its next call; an empty page
\* ends the read
sync_page(limit) ==
  LET page == Page(sync.cursor, limit)
      last == page[Len(page)]
  IN /\ sync.on /\ ~SyncDone
     /\ sync' = [sync EXCEPT
                   !.pages = Append(@, page),
                   !.cursor = IF page = <<>> THEN @
                              ELSE [ts |-> Format(tags[last].updated_at),
                                    tid |-> tags[last].tid]]
     /\ UNCHANGED <<cursor, seen, dupl, core, cacheVars, auditVars>>

\* ---------------------------------------------------------------- bom_items
\* variant: "ent[0] >= now"
FreshInclusive(ent, t) == ent # NoEnt /\ ent.exp >= t

\* "ent and ent[0] > now": the entry exists and has not expired
Fresh(ent, t) == ent # NoEnt /\ ent.exp > t

\* the handler up to its await: key, now = time.time(), and the cache read
\* under _SUGG_LOCK; a fresh entry is returned at once
bom_items_begin(c, q, limit) ==
  LET key == <<Upper(q), limit>>
  IN /\ look[c].pc # "query"
     /\ look' = [look EXCEPT ![c] =
          [pc |-> IF Fresh(cache[key], ctime) THEN "served" ELSE "query",
           key |-> key, now |-> ctime, seq |-> 1 - look[c].seq]]
     /\ UNCHANGED <<cache, ctime, core, pageVars, auditVars>>

\* the query returned within READ_TIMEOUT; the handler stores
\* (now + _SUGG_TTL_SEC, rows) under _SUGG_LOCK and returns the rows
bom_items_store(c) ==
  /\ look[c].pc = "query"
  /\ ctime - look[c].now < READ_TIMEOUT
  /\ cache' = [cache EXCEPT ![look[c].key] =
       [exp |-> look[c].now + _SUGG_TTL_SEC, rows |-> look[c].key[1], ins |-> ctime]]
  /\ look' = [look EXCEPT ![c].pc = "stored"]
  /\ UNCHANGED <<ctime, core, pageVars, auditVars>>

\* asyncio.wait_for raises TimeoutError: nothing is stored
bom_items_timeout(c) ==
  /\ look[c].pc = "query"
  /\ ctime - look[c].now >= READ_TIMEOUT
  /\ look' = [look EXCEPT ![c].pc = "timeout"]
  /\ UNCHANGED <<cache, ctime, core, pageVars, auditVars>>

\* time.time() advances, by a second or by just under the TTL
cache_tick(d) ==
  /\ (ctime \div (_SUGG_TTL_SEC - 2)) + (ctime % (_SUGG_TTL_SEC - 2)) < MaxCacheTicks
  /\ ctime' = ctime + d
  /\ UNCHANGED <<cache, look, core, pageVars, auditVars>>

\* ------------------------------------------------------------ VerifyAndSave
\* The Audit / Verify operation and the Audit Ledger, as the specification of
\* the service describes them (sections 3 and 4.3); the handler is not part
\* of src/main.py.
DedupWindow == 5

\* the Change Log action of a verification
VerifyAction(o, qty, rack) ==
  IF qty # o.qty THEN "ADJUST_QTY"
  ELSE IF rack # o.rack_location THEN "MOVE" ELSE "WRITE_INFO"

\* an Audit Ledger entry of the same tag, transition, device and actor,
\* created within the last DedupWindow seconds
Dedups(e, tid, qo, qn, ro, rn, device, actor) ==
  /\ e.tid = tid /\ e.qty_old = qo /\ e.qty_new = qn
  /\ e.rack_old = ro /\ e.rack_new = rn
  /\ e.device = device /\ e.actor = actor
  /\ now - e.created_at <= DedupWindow

\* VerifyAndSave(tag_id, quantity, rack_location, actor, device): under the
\* row lock, the final quantity and rack location are computed by the
\* keep/clear/set rule and validated, only these two columns are updated, one
\* Change Log entry is appended, and an Audit Ledger entry is appended or an
\* entry within the window is reused; the call returns the entry's identifier
verify_and_save(tid, qty, rack, device, actor) ==
  LET t  == Upper(tid)
      o  == tags[t]
      qn == CoalesceInt(qty, o.qty)
      rn == FinalRack([rack |-> rack], o)
      n  == [o EXCEPT !.qty = qn, !.rack_location = rn, !.ver = o.ver + 1]
      hits == {i \in 1..Len(ledger) :
                 Dedups(ledger[i], t, o.qty, qn, o.rack_location, rn, device, actor)}
      id == IF hits = {} THEN Len(ledger) + 1
            ELSE CHOOSE i \in hits : \A j \in hits : j <= i
  IN /\ Len(calls) < MaxCalls
     /\ o # NoRow /\ lock[t] = "none"
     /\ ~RackMissing(o.area, rn)
     /\ tags' = [tags EXCEPT ![t] = n]
     /\ log' = Append(log, MkLog(t, o.label_number, o.item, VerifyAction(o, qn, rn),
                                 o.qty, qn, o.rack_location, rn, o.area, o.area))
     /\ ledger' = IF hits # {} THEN ledger
                  ELSE Append(ledger,
                         [tid |-> t, qty_old |-> o.qty, qty_new |-> qn,
                          rack_old |-> o.rack_location, rack_new |-> rn,
                          result |-> IF qn # o.qty \/ rn # o.rack_location
                                     THEN "CHANGED" ELSE "NO_CHANGES",
                          printed |-> FALSE, device |-> device, actor |-> actor,
                          created_at |-> now])
     /\ calls' = Append(calls, [args |-> <<t, qty, rack, device, actor>>,
                                at |-> now, id |-> id, entries |-> Len(ledger')])
     /\ UNCHANGED <<now, lock, pc, req, old, pend, result, timedout, lastRead, nreq,
                    pageVars, cacheVars>>

\* the database clock advances by a second or by the length of the window
verify_tick(d) ==
  /\ now + d <= MaxVerifyTime
  /\ now' = now + d
  /\ UNCHANGED <<tags, log, lock, pc, req, old, pend, result, timedout, lastRead,
                 nreq, ext>>

\* the database clock reaches the next second
Tick ==
  /\ now < MaxTime
  /\ now' = now + 1
  /\ UNCHANGED <<tags, log, lock, pc, req, old, pend, result, timedout, lastRead, ext, nreq>>

\* ------------------------------------------------------------------ inputs
MkReq(kind, tid, label, qty, rack, area, action, prev) ==
  [kind |-> kind, tid |-> tid, label |-> label,
   item |-> IF kind = "register" THEN "batt-a" ELSE NULL,
   qty |-> qty, rack |-> rack, area |-> area, action |-> action,
   prev |-> prev, prevVer |-> 0,
   muf |-> NULL, fg |-> NULL,
   batch |-> IF kind = "register" THEN "b1" ELSE NULL,
   ctn |-> IF kind = "register" THEN 2 ELSE NoQty,
   remark |-> IF kind = "register" THEN "note" ELSE NULL,
   actor |-> IF kind = "audit" THEN "auditor" ELSE "userA"]

\* the request as the handler receives it; prevVer remembers which version of
\* the row the client's prev_updated_at was read from (0: not from a read)
Received(r) ==
  [r EXCEPT !.prevVer = IF /\ r.prev # NoPrev
                           /\ r.prev = lastRead.token
                           /\ lastRead.tid = Upper(r.tid)
                        THEN lastRead.ver ELSE 0]

TidInputs == {"t1", "T2"}

\* requests of the concurrent specification
RegisterReqs ==
  {MkReq("register", tl[1], tl[2], 5, ra[1], ra[2], NULL, NoPrev) :
     tl \in {<<"t1", "l1">>, <<"T1", "l1">>, <<"T2", "L2">>, <<"T2", "l1">>},
     ra \in {<<"r1", "w/h">>, <<"", "w/h">>}}

UpdateReqs ==
  {MkReq("update", t, f[1], f[2], f[3], f[4], f[5], f[6]) :
     t \in TidInputs,
     f \in {<<"l1", NoQty, NULL, NULL, "WRITE_INFO", NoPrev>>,
            <<NULL, 7, NULL, NULL, "ADJUST_QTY", NoPrev>>,
            <<NULL, 7, NULL, NULL, "ADJUST_QTY", lastRead.token>>,
            <<NULL, NoQty, "", "", "WRITE_INFO", NoPrev>>,
            <<NULL, NoQty, NULL, "w/h", "WRITE_INFO", NoPrev>>}}

AuditReqs ==
  {MkReq("audit", t, NULL, NoQty, NULL, NULL, NULL, NoPrev) : t \in TidInputs}

DeregReqs ==
  {MkReq("deregister", t, NULL, NoQty, NULL, NULL, NULL, NoPrev) : t \in TidInputs}

ReuseReqs ==
  {MkReq("reuse", t, l, NoQty, NULL, NULL, NULL, NoPrev) :
     t \in TidInputs, l \in {"l1", " "}}

\* ----------------------------------------------------------- specification
Next ==
  \/ \E w \in Workers : \E r \in RegisterReqs : register_begin(w, r)
  \/ \E w \in Workers : register_check(w)
  \/ \E w \in Workers : register_insert(w)
  \/ \E w \in Workers : register_commit(w)
  \/ \E w \in Workers : register_reread(w)
  \/ \E w \in Workers : \E r \in UpdateReqs : update_by_tid_begin(w, Received(r))
  \/ \E w \in Workers : update_by_tid_lock(w)
  \/ \E w \in Workers : update_by_tid_check(w)
  \/ \E w \in Workers : update_by_tid_write(w)
  \/ \E w \in Workers : update_by_tid_commit(w)
  \/ \E w \in Workers : \E r \in AuditReqs : mark_audit_by_tid_begin(w, r)
  \/ \E w \in Workers : mark_audit_by_tid_lock(w)
  \/ \E w \in Workers : mark_audit_by_tid_write(w)
  \/ \E w \in Workers : mark_audit_by_tid_commit(w)
  \/ \E w \in Workers : \E r \in DeregReqs : deregister_by_tid_begin(w, r)
  \/ \E w \in Workers : deregister_by_tid_lock(w)
  \/ \E w \in Workers : deregister_by_tid_write(w)
  \/ \E w \in Workers : deregister_by_tid_commit(w)
  \/ \E w \in Workers : \E r \in ReuseReqs : reuse_by_tid_begin(w, r)
  \/ \E w \in Workers : reuse_by_tid_lock(w)
  \/ \E w \in Workers : reuse_by_tid_write(w)
  \/ \E w \in Workers : reuse_by_tid_commit(w)
  \/ \E w \in Workers : db_error(w)
  \/ \E w \in Workers : wait_for_timeout(w)
  \/ \E t \in TidInputs : by_tid(t)
  \/ Tick

Spec == Init /\ [][Next]_vars

\* the worker thread of a request runs its handler's next statement
WorkerStep(w) ==
  \/ register_check(w) \/ register_insert(w) \/ register_commit(w)
  \/ register_reread(w)
  \/ update_by_tid_lock(w) \/ update_by_tid_check(w)
  \/ update_by_tid_write(w) \/ update_by_tid_commit(w)
  \/ mark_audit_by_tid_lock(w) \/ mark_audit_by_tid_write(w)
  \/ mark_audit_by_tid_commit(w)
  \/ deregister_by_tid_lock(w) \/ deregister_by_tid_write(w)
  \/ deregister_by_tid_commit(w)
  \/ reuse_by_tid_lock(w) \/ reuse_by_tid_write(w) \/ reuse_by_tid_commit(w)

\* requests of the fair specification: mutations of every kind on one tag
\* and a Register of each tag, served by both workers
LiveRegisterReqs ==
  {MkReq("register", t, "l1", 5, "r1", "w/h", NULL, NoPrev) : t \in TidInputs}

LiveUpdateReqs ==
  {MkReq("update", "t1", l, 7, NULL, NULL, "ADJUST_QTY", NoPrev) : l \in {NULL, "l1"}}

LiveAuditReqs == {MkReq("audit", "t1", NULL, NoQty, NULL, NULL, NULL, NoPrev)}

LiveDeregReqs == {MkReq("deregister", "t1", NULL, NoQty, NULL, NULL, NULL, NoPrev)}

LiveReuseReqs == {MkReq("reuse", "t1", "l1", NoQty, NULL, NULL, NULL, NoPrev)}

NextLive ==
  \/ \E w \in Workers : \E r \in LiveRegisterReqs : register_begin(w, r)
  \/ \E w \in Workers : \E r \in LiveUpdateReqs : update_by_tid_begin(w, Received(r))
  \/ \E w \in Workers : \E r \in LiveAuditReqs : mark_audit_by_tid_begin(w, r)
  \/ \E w \in Workers : \E r \in LiveDeregReqs : deregister_by_tid_begin(w, r)
  \/ \E w \in Workers : \E r \in LiveReuseReqs : reuse_by_tid_begin(w, r)
  \/ \E w \in Workers : WorkerStep(w)
  \/ \E w \in Workers : db_error(w)
  \/ \E w \in Workers : wait_for_timeout(w)

\* a started worker thread keeps running (asyncio.to_thread; the caller's
\* timeout does not cancel it), and the database grants a free row lock to a
\* transaction that waits for it
SpecFair == Init /\ [][NextLive]_vars /\ \A w \in Workers : WF_vars(WorkerStep(w))

\* ------------------------------------------------ sync specification
\* A sync client pages through GET /tags/updated-since while two workers
\* register, audit and deregister the two tags.
PageLimits == {1, 2}

PageRegisterReqs ==
  {MkReq("register", tl[1], tl[2], 5, "r1", "w/h", NULL, NoPrev) :
     tl \in {<<"t1", "l1">>, <<"T2", "L2">>}}

PageAuditReqs ==
  {MkReq("audit", t, NULL, NoQty, NULL, NULL, NULL, NoPrev) : t \in TidInputs}

PageDeregReqs ==
  {MkReq("deregister", t, NULL, NoQty, NULL, NULL, NULL, NoPrev) : t \in TidInputs}

NextPage ==
  \/ \E w \in Workers : \E r \in PageRegisterReqs : register_begin(w, r)
  \/ \E w \in Workers : \E r \in PageAuditReqs : mark_audit_by_tid_begin(w, r)
  \/ \E w \in Workers : \E r \in PageDeregReqs : deregister_by_tid_begin(w, r)
  \/ \E w \in Workers : register_check(w)
  \/ \E w \in Workers : register_insert(w)
  \/ \E w \in Workers : register_commit(w)
  \/ \E w \in Workers : register_reread(w)
  \/ \E w \in Workers : mark_audit_by_tid_lock(w)
  \/ \E w \in Workers : mark_audit_by_tid_write(w)
  \/ \E w \in Workers : mark_audit_by_tid_commit(w)
  \/ \E w \in Workers : deregister_by_tid_lock(w)
  \/ \E w \in Workers : deregister_by_tid_write(w)
  \/ \E w \in Workers : deregister_by_tid_commit(w)
  \/ \E limit \in PageLimits : tags_updated_since(limit)
  \/ Tick

SpecPage == Init /\ [][NextPage]_vars

\* ----------------------------------------------- cache specification
\* Two clients look items up concurrently; "abc" and "ABC" share a key.
NextCache ==
  \/ \E c \in Clients : \E q \in {"abc", "ABC"} : \E limit \in {5, 20} :
       bom_items_begin(c, q, limit)
  \/ \E c \in Clients : bom_items_store(c)
  \/ \E c \in Clients : bom_items_timeout(c)
  \/ \E d \in {1, _SUGG_TTL_SEC - 2} : cache_tick(d)

SpecCache == Init /\ [][NextCache]_vars

SeqWorker == "w1"

\* ---------------------------------------------- verify specification
\* One tag is registered and then verified repeatedly by one actor and device.
VerifyRegisterReqs ==
  {MkReq("register", "t1", "l1", 5, "r1", "w/h", NULL, NoPrev)}

NextVerify ==
  \/ \E r \in VerifyRegisterReqs : register_begin(SeqWorker, r)
  \/ register_check(SeqWorker)
  \/ register_insert(SeqWorker)
  \/ register_commit(SeqWorker)
  \/ register_reread(SeqWorker)
  \/ \E qty \in {NoQty, 7} : \E rack \in {NULL, "r2"} :
       verify_and_save("t1", qty, rack, "T1U-1", "userA")
  \/ \E d \in {1, DedupWindow} : verify_tick(d)

SpecVerify == Init /\ [][NextVerify]_vars

\* ------------------------------------------- full read specification
\* One worker registers and audits the two tags; then a client reads the
\* whole store page by page, and no transaction runs while it does.
RoundLimits == {1, 2, 3}

NextRound ==
  \/ \E r \in PageRegisterReqs : ~sync.on /\ register_begin(SeqWorker, r)
  \/ ~sync.on /\ register_check(SeqWorker)
  \/ ~sync.on /\ register_insert(SeqWorker)
  \/ ~sync.on /\ register_commit(SeqWorker)
  \/ ~sync.on /\ register_reread(SeqWorker)
  \/ \E r \in PageAuditReqs : ~sync.on /\ mark_audit_by_tid_begin(SeqWorker, r)
  \/ ~sync.on /\ mark_audit_by_tid_lock(SeqWorker)
  \/ ~sync.on /\ mark_audit_by_tid_write(SeqWorker)
  \/ ~sync.on /\ mark_audit_by_tid_commit(SeqWorker)
  \/ Tick
  \/ sync_start
  \/ \E limit \in RoundLimits : sync_page(limit)

\* the client keeps calling until it gets an empty page
SpecRound ==
  Init /\ [][NextRound]_vars /\ WF_vars(\E limit \in RoundLimits : sync_page(limit))

\* ---------------------------------------------- sequential specification
\* One worker serves one request at a time; the requests range over every
\* shape of rack_location and area (omitted, empty, blank, value), quantity,
\* action hint (any string: "action: str") and prev_updated_at.
SeqRegisterReqs ==
  {MkReq("register", "t1", "l1", 5, ra[1], ra[2], NULL, NoPrev) :
     ra \in {<<NULL, NULL>>, <<"r1", "w/h">>, <<" ", "w/h">>, <<"r1", "prod">>}}

SeqUpdateReqs ==
  {MkReq("update", "t1", NULL, qa[1], rack, area, qa[2], NoPrev) :
     rack \in {NULL, "", " ", " r2 "}, area \in {NULL, "", " ", "w/h", " w/h "},
     qa \in {<<NoQty, "WRITE_INFO">>, <<5, "WRITE_INFO">>, <<7, "WRITE_INFO">>,
             <<7, "ADJUST_QTY">>, <<NoQty, "ADJUST_QTY">>}}
  \cup
  {MkReq("update", "t1", NULL, 7, NULL, NULL, "WRITE_INFO", p) :
     p \in {Format(t) : t \in 0..MaxTime} \cup {IsoFormat(0)}}
  \cup
  {MkReq("update", "t1", NULL, q, NULL, NULL, hint, NoPrev) :
     q \in {NoQty, 7}, hint \in {"REGISTER", "AUDIT"}}

SeqAuditReqs == {MkReq("audit", "t1", NULL, NoQty, NULL, NULL, NULL, NoPrev)}

SeqDeregReqs == {MkReq("deregister", "t1", NULL, NoQty, NULL, NULL, NULL, NoPrev)}

SeqReuseReqs == {MkReq("reuse", "t1", "L2", NoQty, NULL, NULL, NULL, NoPrev)}

SeqMore == nreq < MaxSeqReq

NextSeq ==
  \/ \E r \in SeqRegisterReqs : SeqMore /\ register_begin(SeqWorker, r)
  \/ register_check(SeqWorker)
  \/ register_insert(SeqWorker)
  \/ register_commit(SeqWorker)
  \/ register_reread(SeqWorker)
  \/ \E r \in SeqUpdateReqs : SeqMore /\ update_by_tid_begin(SeqWorker, Received(r))
  \/ update_by_tid_lock(SeqWorker)
  \/ update_by_tid_check(SeqWorker)
  \/ update_by_tid_write(SeqWorker)
  \/ update_by_tid_commit(SeqWorker)
  \/ \E r \in SeqAuditReqs : SeqMore /\ mark_audit_by_tid_begin(SeqWorker, r)
  \/ mark_audit_by_tid_lock(SeqWorker)
  \/ mark_audit_by_tid_write(SeqWorker)
  \/ mark_audit_by_tid_commit(SeqWorker)
  \/ \E r \in SeqDeregReqs : SeqMore /\ deregister_by_tid_begin(SeqWorker, r)
  \/ deregister_by_tid_lock(SeqWorker)
  \/ deregister_by_tid_write(SeqWorker)
  \/ deregister_by_tid_commit(SeqWorker)
  \/ \E r \in SeqReuseReqs : SeqMore /\ reuse_by_tid_begin(SeqWorker, r)
  \/ reuse_by_tid_lock(SeqWorker)
  \/ reuse_by_tid_write(SeqWorker)
  \/ reuse_by_tid_commit(SeqWorker)
  \/ db_error(SeqWorker)
  \/ wait_for_timeout(SeqWorker)
  \/ by_tid("t1")
  \/ Tick

SpecSeq == Init /\ [][NextSeq]_vars

\* ================================================================== claims

LogCount(t) == Cardinality({i \in 1..Len(log) : log[i].tid = t})

\* C1: in every state the committed Change Log holds exactly one entry per
\* committed mutation of a tag row: a tag's log entries are as many as the
\* committed writes of its row, and a tid without a row has no entry.  This
\* holds whatever the callers' timeouts do.
C1_OneLogEntryPerMutation ==
  \A t \in TIDS : LogCount(t) = (IF tags[t] = NoRow THEN 0 ELSE tags[t].ver)

\* a register whose caller timed out has committed its row and its entry,
\* after another request committed two mutations of another tag
C1_Witness ==
  \E w \in Workers :
    /\ timedout[w] /\ pc[w] = "r_reread"
    /\ tags[Tid(w)] # NoRow /\ LogCount(Tid(w)) = 1
    /\ \E t \in TIDS : t # Tid(w) /\ tags[t] # NoRow /\ tags[t].ver = 2

RejectCodes == {400, 404, 409}

\* the step with which worker w answers 400, 404 or 409
Rejecting(w) ==
  /\ pc'[w] = "done"
  /\ result'[w].code \in RejectCodes
  /\ pc[w] # "done" \/ nreq' # nreq

\* C2: the step that rejects a request with NotFound, Conflict or Validation
\* leaves the Tag Store and the Change Log as they were, and no request is
\* rejected after its own transaction committed.
C2_RejectLeavesStore ==
  [][\A w \in Workers :
       Rejecting(w) => (tags' = tags /\ log' = log /\ pc[w] # "r_reread")]_vars

\* an Update was rejected for a duplicate label while both tags are stored
C2_Witness ==
  \E w \in Workers :
    /\ pc[w] = "done"
    /\ result[w] = Err("update", 409, "Duplicate label")
    /\ Rows = TIDS /\ Len(log) = 2

\* C3: every stored row whose area requires a location has a non-empty
\* rack_location.
C3_RequiredLocation ==
  \A t \in Rows :
    tags[t].area \in {"W/H", "KITING"} =>
      (tags[t].rack_location # NULL /\ Strip(tags[t].rack_location) # "")

\* an Update has moved a tag into a required area together with its location
C3_Witness ==
  \E t \in Rows :
    tags[t].area = "W/H" /\ tags[t].rack_location = "R2" /\ tags[t].ver >= 2

\* C4: no two stored rows hold the same non-null label_number, compared
\* case-insensitively.
C4_LabelUnique ==
  \A t1 \in Rows : \A t2 \in Rows :
    (t1 # t2 /\ tags[t1].label_number # NULL /\ tags[t2].label_number # NULL)
      => Upper(tags[t1].label_number) # Upper(tags[t2].label_number)

\* the worker is between its locking read and its commit or rollback
InTx(w) ==
  /\ req[w].kind \in {"update", "audit", "deregister", "reuse"}
  /\ pc[w] \in {"check", "write", "commit"}

\* C5: two mutation transactions on the same tag are never both between
\* their locking read and their commit or rollback, and the row a
\* transaction read under lock is the committed row for as long as it runs.
C5_MutualExclusion ==
  /\ \A w1 \in Workers : \A w2 \in Workers :
       (w1 # w2 /\ InTx(w1) /\ InTx(w2)) => Tid(w1) # Tid(w2)
  /\ \A w \in Workers : InTx(w) => old[w] = tags[Tid(w)]

\* one worker has committed a mutation of a tag and the other worker, now
\* past its locking read of that tag, holds the row the first one committed
C5_Witness ==
  \E w1 \in Workers : \E w2 \in Workers :
    /\ w1 # w2
    /\ pc[w1] = "done" /\ result[w1].code = 200 /\ result[w1].op # "register"
    /\ InTx(w2) /\ old[w2].ver = 2 /\ old[w2] = tags[Tid(w2)]

\* updated_at of a stored row in the text form 'YYYY-MM-DD HH:MM:SS'
StoredStamp(t) == [fmt |-> "%Y-%m-%d %H:%M:%S", sec |-> tags[t].updated_at]

ConflictAnswer == Err("update", 409, "conflict: the tag was updated by someone else")

\* C6: when an Update passes from its locking read to its checks, a
\* prev_updated_at that is omitted or equals the row's updated_at in the form
\* 'YYYY-MM-DD HH:MM:SS' does not raise the optimistic conflict; one that is
\* given and differs is answered 409 and leaves the row and the log unchanged.
C6_OptimisticCheck ==
  [][\A w \in Workers :
       (pc[w] = "check" /\ pc'[w] # "check") =>
         LET p == req[w].prev
             conflict == pc'[w] = "done" /\ result'[w] = ConflictAnswer
         IN /\ (p = NoPrev \/ p = StoredStamp(Tid(w))) => ~conflict
            /\ (p # NoPrev /\ p # StoredStamp(Tid(w))) =>
                 (conflict /\ tags' = tags /\ log' = log)]_vars

\* an Update carrying the stamp of a row written in the second second has
\* passed the optimistic check
C6_Witness ==
  \E w \in Workers :
    /\ pc[w] = "write" /\ req[w].kind = "update"
    /\ tags[Tid(w)].updated_at = 1
    /\ req[w].prev = StoredStamp(Tid(w))

\* C7: an Update that carries as prev_updated_at the stamp a client read gets
\* past the optimistic check only if no mutation of the tag committed between
\* that read and the Update's locking read.
C7_LostUpdateDetected ==
  \A w \in Workers :
    (req[w].kind = "update" /\ pc[w] \in {"write", "commit"} /\ req[w].prevVer # 0)
      => old[w].ver = req[w].prevVer

\* the step with which an Update commits
UpdateCommits(w) ==
  /\ pc[w] = "commit" /\ req[w].kind = "update"
  /\ pc'[w] = "done" /\ result'[w].code = 200

\* the stored value the claim gives for a field sent as raw over a prior value
ClaimedField(raw, prior) ==
  IF raw = NULL THEN prior ELSE IF raw = "" THEN NULL ELSE Upper(raw)

ClaimedAction(o, n, hint) ==
  IF /\ o.qty = n.qty
     /\ o.area # n.area \/ o.rack_location # n.rack_location
     /\ hint # "ADJUST_QTY"
  THEN "MOVE" ELSE hint

\* C9: the entry an accepted Update appends carries the action MOVE when the
\* quantity is unchanged, area or rack_location changed (whatever the area)
\* and the hint is not ADJUST_QTY, and the caller's hint otherwise.
C9_ActionAsClaimed ==
  [][\A w \in Workers :
       UpdateCommits(w) =>
         log'[Len(log')].action =
           ClaimedAction(tags[Tid(w)], tags'[Tid(w)], req[w].action)]_vars

\* C10: a Register commits only when no stored tag holds its tid or its
\* label_number (compared case-insensitively), also when Registers overlap.
C10_StrictInsert ==
  [][\A w \in Workers :
       (pc[w] = "r_commit" /\ pc'[w] = "r_reread") =>
         \A t \in Rows :
           /\ t # Tid(w)
           /\ tags[t].label_number # NULL =>
                Upper(tags[t].label_number) # Upper(req[w].label)]_vars

\* the step with which a request of the given kind commits
Commits(w, kind) ==
  /\ pc[w] = "commit" /\ req[w].kind = kind
  /\ pc'[w] = "done" /\ result'[w].code = 200

\* C12: a Reuse whose new_label is held, case-insensitively, by another tag
\* does not commit: it is answered 409 and leaves rows and log unchanged.
C12_ReuseChecksLabel ==
  [][\A w \in Workers :
       (/\ req[w].kind = "reuse" /\ pc[w] = "commit" /\ pc'[w] # "commit"
        /\ LabelHeldByOther(req[w].label, Tid(w)))
         => (result'[w].code # 200 /\ tags' = tags /\ log' = log)]_vars

\* C13: the step that commits a Deregister or a Reuse leaves the tag's row in
\* place with its tid, with qty 0, item '-', and rack_location, area,
\* batch_no, muf_no and fg_no null; Deregister keeps label_number, Reuse
\* stores the upper-cased new_label; every other tag's row is unchanged.
C13_ResetEffect ==
  [][\A w \in Workers :
       (Commits(w, "deregister") \/ Commits(w, "reuse")) =>
         LET t == Tid(w)
             n == tags'[t]
         IN /\ tags[t] # NoRow /\ n # NoRow
            /\ n.tid = tags[t].tid
            /\ n.qty = 0 /\ n.item = "-"
            /\ n.rack_location = NULL /\ n.area = NULL
            /\ n.batch_no = NULL /\ n.muf_no = NULL /\ n.fg_no = NULL
            /\ req[w].kind = "deregister" => n.label_number = tags[t].label_number
            /\ req[w].kind = "reuse" => n.label_number = Upper(req[w].label)
            /\ \A u \in TIDS \ {t} : tags'[u] = tags[u]]_vars

\* a registered tag was reset while the other tag is stored
C13_Witness ==
  /\ Rows = TIDS
  /\ \E t \in TIDS : tags[t].item = "-" /\ tags[t].batch_no = NULL /\ tags[t].ver = 2
  /\ \E w \in Workers : result[w] \in {Ok("deregister"), Ok("reuse")}

\* the entry a committing Deregister or Reuse appends, for a given action label
ResetEntry(w, action) ==
  /\ Len(log') = Len(log) + 1
  /\ log'[Len(log')].tid = Tid(w)
  /\ log'[Len(log')].action = action
  /\ log'[Len(log')].qty_old = tags[Tid(w)].qty
  /\ log'[Len(log')].from_rack_location = tags[Tid(w)].rack_location
  /\ log'[Len(log')].qty_new = 0

\* C14 as stated: a Deregister and a Reuse each append exactly one entry with
\* the action REUSE, qty_old and from_rack_location of the tag before the
\* reset, and qty_new 0.
C14_ReuseLabelForBoth ==
  [][\A w \in Workers :
       (Commits(w, "deregister") \/ Commits(w, "reuse")) => ResetEntry(w, "REUSE")]_vars

\* C14 as amended: the entry of a Reuse has the action REUSE, the entry of a
\* Deregister has the action WRITE_INFO; both carry qty_old and
\* from_rack_location of the tag before the reset and qty_new 0.
C14_ResetEntry ==
  [][\A w \in Workers :
       /\ Commits(w, "reuse") => ResetEntry(w, "REUSE")
       /\ Commits(w, "deregister") => ResetEntry(w, "WRITE_INFO")]_vars

\* a Deregister of a tag that held quantity 5 at R1 has been logged
C14_Witness ==
  \E i \in 1..Len(log) :
    /\ log[i].action = "WRITE_INFO" /\ log[i].item = "-"
    /\ log[i].qty_old = 5 /\ log[i].qty_new = 0
    /\ log[i].from_rack_location = "R1" /\ log[i].to_rack_location = NULL

\* C15: the step that commits a MarkAudited changes, of the tag's row, only
\* audit_at, updated_at and updated_by, leaves the other rows alone, and
\* appends exactly one entry with action AUDIT whose old and new quantity,
\* rack location and area all equal the tag's values.
C15_AuditFrame ==
  [][\A w \in Workers :
       Commits(w, "audit") =>
         LET t == Tid(w)
             o == tags[t]
             n == tags'[t]
             e == log'[Len(log')]
         IN /\ n = [o EXCEPT !.audit_at = n.audit_at, !.updated_at = n.updated_at,
                             !.updated_by = n.updated_by, !.ver = n.ver]
            /\ \A u \in TIDS \ {t} : tags'[u] = tags[u]
            /\ Len(log') = Len(log) + 1
            /\ e.tid = t /\ e.action = "AUDIT"
            /\ e.qty_old = o.qty /\ e.qty_new = o.qty
            /\ e.from_rack_location = o.rack_location
            /\ e.to_rack_location = o.rack_location
            /\ e.area_old = o.area /\ e.area_new = o.area]_vars

\* a tag registered with a remark has been audited
C15_Witness ==
  /\ \E t \in Rows : /\ tags[t].audit_at # NoQty /\ tags[t].updated_by = "auditor"
                     /\ tags[t].remark = "note" /\ tags[t].qty = 5
  /\ Len(log) >= 2 /\ log[Len(log)].action = "AUDIT"

\* the step with which worker w answers its request with an error
Failing(w) ==
  /\ pc'[w] = "done"
  /\ result'[w].code # 200
  /\ pc[w] # "done" \/ nreq' # nreq

\* C16: a request that is answered with an error (4xx, or 500 for a database
\* error on any statement) has changed neither the Tag Store nor the Change
\* Log: the failing step changes nothing and the request's transaction has
\* not committed before it.
C16_RollbackOnFailure ==
  [][\A w \in Workers :
       Failing(w) => (tags' = tags /\ log' = log /\ pc[w] # "r_reread")]_vars

\* the step with which a Register commits its row
RegisterCommits(w) == pc[w] = "r_commit" /\ pc'[w] = "r_reread"

\* C17: a Register commits a row only for a tid that, compared
\* case-insensitively, no stored row has, and stores it under its upper-cased
\* tid; a stored row is never removed and its tid never changes, whatever
\* operation runs.
C17_TagIdentity ==
  [][/\ \A w \in Workers :
          RegisterCommits(w) =>
            /\ tags[Tid(w)] = NoRow
            /\ \A t \in Rows : Upper(tags[t].tid) # Upper(req[w].tid)
            /\ tags'[Tid(w)].tid = Upper(req[w].tid)
     /\ \A t \in TIDS :
          tags[t] # NoRow => (tags'[t] # NoRow /\ tags'[t].tid = tags[t].tid)]_vars

\* of two overlapping Registers of one tid one was refused by the key on tid,
\* and the row of the other has since been mutated
C17_Witness ==
  /\ \E w \in Workers : result[w] = Err("register", 409, "Duplicate tid")
  /\ tags["T1"] # NoRow /\ tags["T1"].tid = "T1" /\ tags["T1"].ver = 2

\* C18: under fair scheduling of the worker threads, a transaction that
\* holds a tag's row lock eventually releases it, a mutation waiting for its
\* locking read eventually gets past it, and every started mutation
\* eventually returns holding no lock.
C18_LockReleased ==
  \A w \in Workers :
    /\ \A t \in TIDS : (lock[t] = w) ~> (lock[t] # w)
    /\ (pc[w] = "lock") ~> (pc[w] # "lock")
    /\ (pc[w] \notin {"idle", "done"}) ~>
         (pc[w] = "done" /\ \A t \in TIDS : lock[t] # w)

\* a mutation waits at its locking read for the row lock another
\* transaction holds
C18_Witness ==
  \E w1 \in Workers : \E w2 \in Workers :
    w1 # w2 /\ pc[w1] = "lock" /\ lock[Tid(w1)] = w2 /\ pc[w2] = "commit"

\* the row's sort key (updated_at, tid) is not after the client's cursor
NotAfterCursor(t) ==
  \/ tags[t].updated_at < cursor.ts.sec
  \/ tags[t].updated_at = cursor.ts.sec /\ TidOrd(t) <= TidOrd(cursor.tid)

\* C11: the client never gets a row state twice, and never skips one: a
\* committed row whose (updated_at, tid) the cursor has reached or passed,
\* and which no later page can therefore return, has been returned in its
\* current state.
C11_NoSkipNoRepeat ==
  /\ ~dupl
  /\ \A t \in Rows : NotAfterCursor(t) => seen[t] = tags[t].ver

\* the step with which client c starts a lookup
Begins(c) == look'[c].seq # look[c].seq

\* C19: a lookup is served from the cache only while fewer than
\* _SUGG_TTL_SEC seconds have passed since the entry of its key was inserted;
\* a lookup that finds no entry, or an entry inserted _SUGG_TTL_SEC seconds
\* ago or earlier, runs the query, and when the query returns the entry of
\* its key is replaced by one inserted now; entries of other keys stay.
C19_CacheTTL ==
  [][\A c \in Clients :
       /\ Begins(c) =>
            LET ent == cache[look'[c].key]
            IN /\ look'[c].pc = "served" =>
                    (ent # NoEnt /\ ctime - ent.ins < _SUGG_TTL_SEC)
               /\ (ent = NoEnt \/ ctime - ent.ins >= _SUGG_TTL_SEC) =>
                    look'[c].pc = "query"
       /\ (look[c].pc = "query" /\ look'[c].pc = "stored") =>
            /\ cache'[look[c].key].ins = ctime
            /\ cache'[look[c].key].rows = look[c].key[1]
            /\ \A k \in Keys \ {look[c].key} : cache'[k] = cache[k]]_vars

\* a lookup started at second 299 is served from the entry inserted at
\* second 0
C19_Witness ==
  \E c \in Clients :
    /\ look[c].pc = "served"
    /\ cache[look[c].key].ins = 0
    /\ look[c].now = _SUGG_TTL_SEC - 1

\* C20: of two consecutive VerifyAndSave calls with identical tag, quantity,
\* location, device and actor, the second returns the first one's audit
\* identifier and adds no Audit Ledger entry when it comes within 5 seconds,
\* and creates a new entry when it comes after the 5-second window.
C20_VerifyIdempotent ==
  \A j \in 2..Len(calls) :
    LET a == calls[j - 1]
        b == calls[j]
    IN a.args = b.args =>
         IF b.at - a.at <= 5
           THEN b.id = a.id /\ b.entries = a.entries
           ELSE b.id # a.id /\ b.entries = a.entries + 1

\* C21: for every shape of area and rack_location in an Update (omitted,
\* empty, white space only, value), the final_area and final_rack computed
\* for the required-location validation and the classification equal the
\* area and rack_location stored in the row after the UPDATE.
C21_FinalEqualsStored ==
  [][\A w \in Workers :
       UpdateCommits(w) =>
         /\ FinalArea(req[w], old[w]) = tags'[Tid(w)].area
         /\ FinalRack(req[w], old[w]) = tags'[Tid(w)].rack_location]_vars

\* the rows of the pages of the full read, in the order they were returned
RECURSIVE Flatten(_)
Flatten(ps) == IF ps = <<>> THEN <<>> ELSE Head(ps) \o Flatten(Tail(ps))

\* row t sorts strictly before row u by (updated_at, tid)
KeyBefore(t, u) ==
  \/ tags[t].updated_at < tags[u].updated_at
  \/ tags[t].updated_at = tags[u].updated_at /\ TidOrd(t) < TidOrd(u)

\* the full read ended with an empty page, having returned every stored tag
\* exactly once, in ascending order of (updated_at, tid)
RoundTripComplete ==
  LET got == Flatten(sync.pages)
  IN /\ SyncDone
     /\ {got[i] : i \in 1..Len(got)} = Rows
     /\ Len(got) = Cardinality(Rows)
     /\ \A i \in 1..(Len(got) - 1) : KeyBefore(got[i], got[i + 1])

\* C22: on a store no transaction writes to, a client that pages from
\* (epoch, '') with any limits, passing each time the last row's
\* (updated_at, tid), gets every tag exactly once in ascending
\* (updated_at, tid) order and ends with an empty page, also when tags
\* share one updated_at.
C22_RoundTrip == sync.on ~> RoundTripComplete

\* a full read of two tags with the same updated_at, one row per page, is over
C22_Witness ==
  /\ RoundTripComplete
  /\ Len(sync.pages) = 3
  /\ Rows = TIDS
  /\ tags["T1"].updated_at = tags["T2"].updated_at

\* the step with which a Register returns the row it re-read
RegisterReturns(w) ==
  /\ pc[w] = "r_reread" /\ pc'[w] = "done" /\ result'[w].code = 200

\* C23: the row a successful Register returns is the row it inserted (same
\* label_number, item, quantity, rack_location, area and updated_by),
\* whatever other requests on the same tid run beside it.
C23_RegisterReturnsInserted ==
  [][\A w \in Workers :
       RegisterReturns(w) =>
         LET ins == RegisteredRow(req[w], now)
             ret == RereadRow(w)
         IN /\ ret.label_number = ins.label_number
            /\ ret.item = ins.item
            /\ ret.qty = ins.qty
            /\ ret.rack_location = ins.rack_location
            /\ ret.area = ins.area
            /\ ret.updated_by = ins.updated_by]_vars

\* the Change Log entries of tag t, in commit order
EntriesOf(t) == SelectSeq(log, LAMBDA e : e.tid = t)

\* C24: for every tag, each Change Log entry's qty_new, to_rack_location and
\* area_new equal the next entry's qty_old, from_rack_location and area_old,
\* and the last entry's after-values are the quantity, rack_location and
\* area of the tag's stored row, under any interleaving of mutations.
C24_LogContinuity ==
  \A t \in TIDS :
    LET es == EntriesOf(t)
    IN /\ \A i \in 1..(Len(es) - 1) :
            /\ es[i].qty_new = es[i + 1].qty_old
            /\ es[i].to_rack_location = es[i + 1].from_rack_location
            /\ es[i].area_new = es[i + 1].area_old
       /\ es # <<>> =>
            /\ tags[t] # NoRow
            /\ es[Len(es)].qty_new = tags[t].qty
            /\ es[Len(es)].to_rack_location = tags[t].rack_location
            /\ es[Len(es)].area_new = tags[t].area

\* a tag has been registered, changed in quantity and reused: three entries
C24_Witness ==
  \E t \in Rows :
    LET es == EntriesOf(t)
    IN /\ Len(es) = 3
       /\ es[1].action = "REGISTER" /\ es[1].to_rack_location = "R1"
       /\ es[2].qty_new = 7
       /\ es[3].action = "REUSE" /\ es[3].qty_old = 7

\* the entries of tag t start with its one REGISTER entry, which has no
\* before-values
OneRegisterEntry(t) ==
  LET es == EntriesOf(t)
  IN /\ es # <<>>
     /\ es[1].action = "REGISTER"
     /\ es[1].qty_old = NoQty
     /\ es[1].from_rack_location = NULL
     /\ es[1].area_old = NULL
     /\ \A i \in 2..Len(es) : es[i].action # "REGISTER"

\* C25: every registered tag has exactly one REGISTER entry, which is its
\* first entry and has null qty_old, from_rack_location and area_old, and
\* no Update, whatever its action hint, appends an entry labelled REGISTER,
\* AUDIT or REUSE.
C25_RegisterEntry ==
  [][/\ \A t \in TIDS : tags'[t] # NoRow => OneRegisterEntry(t)'
     /\ \A w \in Workers :
          UpdateCommits(w) =>
            log'[Len(log')].action \notin {"REGISTER", "AUDIT", "REUSE"}]_vars
====
